---- MODULE Spec2Model ----
(***************************************************************************)
(* A model of fweh, the image framer: the layout calculator                *)
(* (utils.rs), the corner rounder and the process_image pipeline           *)
(* (image_processing.rs), the shadow generator (shadow.rs) and the         *)
(* background generator (background.rs).                                   *)
(*                                                                         *)
(* All arithmetic the code does in f32 is done here in f32: a non-negative *)
(* f32 is the pair <<m, e>> standing for m * 2^e, with m = 0 or            *)
(* 2^23 <= m < 2^24, and every operation rounds to nearest, ties to even.  *)
(***************************************************************************)
EXTENDS Integers, Sequences, FiniteSets, TLC

VARIABLES
    pc,           \* process_image: the stage about to run; a pure call: "call"/"return"
    options,      \* process_image: the ProcessingOptions
    input_file,   \* process_image: what image::open finds at input_path
    processed,    \* process_image: the (possibly rounded) source buffer
    with_shadow,  \* process_image: the shadow+source layer
    background,   \* process_image: the background, then the composited output
    output_file,  \* process_image: what is on disk at output_path
    position,     \* process_image: <<x as i64, y as i64>>, where the layer is overlaid
    result,       \* process_image: Ok / Err / panic, once it has returned
    args,         \* a call of one function on its own: its arguments
    ret           \* a call of one function on its own: what it returned

vars == <<pc, options, input_file, processed, with_shadow, background,
          output_file, position, result, args, ret>>

(***************************************************************************)
(* Bounds of the model.                                                    *)
(***************************************************************************)
MaxDim == 7

MaxRatio == 3

MaxScaleTenths == 20

MaxImage == 8

MaxGradientWidth == 3

MaxGradientHeight == 8

MaxShadowSource == 2

MaxOffset == 2

MaxBlurRadius == 2

MaxSourceWidth == 2

MaxSourceHeight == 4

MaxCornerRadius == 16

MaxBlurImage == 3

MaxPassRadius == 4

\* Option<T>: None, Some(v)
None == <<>>

Some(v) == <<v>>

Min(a, b) == IF a < b THEN a ELSE b

Max(a, b) == IF a > b THEN a ELSE b

Abs(a) == IF a < 0 THEN -a ELSE a

(***************************************************************************)
(* f32                                                                     *)
(***************************************************************************)
F32Zero == <<0, 0>>

RECURSIVE BitLen(_)
BitLen(n) == IF n = 0 THEN 0 ELSE 1 + BitLen(n \div 2)

\* q, with remainder r out of 2 * half dropped: nearest, ties to even
RoundNearestEven(q, r, half, sticky) ==
    IF r > half \/ (r = half /\ (sticky \/ q % 2 = 1)) THEN q + 1 ELSE q

\* A significand that rounding carried to 2^24 is renormalised
Carry(q, e) == IF q = 2^24 THEN <<2^23, e + 1>> ELSE <<q, e>>

\* F32Norm of an n that is len bits long
NormAt(n, e, sticky, len) ==
    IF len <= 24 THEN <<n * 2^(24 - len), e - (24 - len)>>
    ELSE Carry(RoundNearestEven(n \div 2^(len - 24), n % 2^(len - 24),
                                2^(len - 25), sticky),
               e + (len - 24))

\* n * 2^e (plus a positive amount below one unit of n when sticky),
\* rounded to 24 bits, nearest, ties to even.  n < 2^30.
F32Norm(n, e, sticky) ==
    IF n = 0 THEN F32Zero ELSE NormAt(n, e, sticky, BitLen(n))

\* `n as f32`, n a small non-negative integer
F32FromNat(n) == F32Norm(n, 0, FALSE)

F32One == F32FromNat(1)

F32Gt(a, b) ==
    IF a[1] = 0 THEN FALSE
    ELSE IF b[1] = 0 THEN TRUE
    ELSE a[2] > b[2] \/ (a[2] = b[2] /\ a[1] > b[1])

F32Mul(a, b) ==
    IF a[1] = 0 \/ b[1] = 0 THEN F32Zero
    ELSE LET a1  == a[1] \div 4096
             a0  == a[1] % 4096
             b1  == b[1] \div 4096
             b0  == b[1] % 4096
             lo  == a0 * b0
             mid == a1 * b0 + a0 * b1 + (lo \div 4096)
             hi  == a1 * b1 + (mid \div 4096)
             low == (mid % 4096) * 4096 + (lo % 4096)   \* low 24 bits
             n   == hi * 16 + (low \div 2^20)
         IN F32Norm(n, a[2] + b[2] + 20, low % 2^20 # 0)

\* 26 more quotient bits by long division, 7 + 7 + 7 + 5 at a time
F32Div(a, b) ==
    IF a[1] = 0 THEN F32Zero
    ELSE LET q0 == a[1] \div b[1]
             r0 == a[1] % b[1]
             q1 == q0 * 128 + (r0 * 128) \div b[1]
             r1 == (r0 * 128) % b[1]
             q2 == q1 * 128 + (r1 * 128) \div b[1]
             r2 == (r1 * 128) % b[1]
             q3 == q2 * 128 + (r2 * 128) \div b[1]
             r3 == (r2 * 128) % b[1]
             q4 == q3 * 32 + (r3 * 32) \div b[1]
             r4 == (r3 * 32) % b[1]
         IN F32Norm(q4, a[2] - b[2] - 26, r4 # 0)

\* b aligned to a's exponent with three extra bits: <<bits, sticky>>
F32Align(a, b) ==
    LET d == a[2] - b[2] IN
    IF b[1] = 0 THEN <<0, FALSE>>
    ELSE IF d > 27 THEN <<0, TRUE>>
    ELSE <<(b[1] * 8) \div 2^d, (b[1] * 8) % 2^d # 0>>

\* a + b for a >= b, s being b aligned to a
F32AddAligned(a, s) == F32Norm(a[1] * 8 + s[1], a[2] - 3, s[2])

F32Add(x, y) ==
    IF F32Gt(y, x) THEN F32AddAligned(y, F32Align(y, x))
    ELSE F32AddAligned(x, F32Align(x, y))

\* a - b for a >= b, s being b aligned to a
F32SubAligned(a, s) ==
    IF s[2] THEN F32Norm(a[1] * 8 - s[1] - 1, a[2] - 3, TRUE)
    ELSE F32Norm(a[1] * 8 - s[1], a[2] - 3, FALSE)

\* a - b for a >= b
F32Sub(a, b) == F32SubAligned(a, F32Align(a, b))

\* `x as u32` (also `as usize`): truncation (the values here are far below 2^24)
F32ToNat(a) ==
    IF a[2] >= 0 THEN a[1] * 2^(a[2])
    ELSE IF -a[2] >= 24 THEN 0
    ELSE a[1] \div 2^(-a[2])

\* `x.round()` as an integer: half away from zero
F32Round(a) ==
    IF a[2] >= 0 THEN a[1] * 2^(a[2])
    ELSE IF -a[2] > 24 THEN 0
    ELSE (a[1] + 2^(-a[2] - 1)) \div 2^(-a[2])

(***************************************************************************)
(* utils.rs: the layout calculator                                         *)
(***************************************************************************)
RECURSIVE gcd(_, _)
gcd(a, b) == IF b = 0 THEN a ELSE gcd(b, a % b)

calculate_aspect_ratio(width, height) ==
    LET divisor == gcd(width, height)
    IN <<width \div divisor, height \div divisor>>

\* `(dim as f32 * scale_factor) as u32`
ScaledDim(dim, scale_factor) == F32ToNat(F32Mul(F32FromNat(dim), scale_factor))

SaturatingSub(a, b) == IF a > b THEN a - b ELSE 0

\* <<new_width, new_height>>: the `if target_ratio > original_ratio` of
\* calculate_padding, scale_factor being scale / 100.0
NewSize(width, height, target_ratio, scale_factor) ==
    IF F32Gt(target_ratio, F32Div(F32FromNat(width), F32FromNat(height)))
    THEN <<F32ToNat(F32Mul(F32FromNat(ScaledDim(height, scale_factor)),
                           target_ratio)),
           ScaledDim(height, scale_factor)>>
    ELSE <<ScaledDim(width, scale_factor),
           F32ToNat(F32Div(F32FromNat(ScaledDim(width, scale_factor)),
                           target_ratio))>>

\* The padding around a scaled source in a canvas of the size new
Padding(new, scaled_width, scaled_height) ==
    LET pad_width  == SaturatingSub(new[1], scaled_width)
        pad_height == SaturatingSub(new[2], scaled_height)
        pad_left   == pad_width \div 2
        pad_top    == pad_height \div 2
    IN [new_width  |-> new[1],     new_height |-> new[2],
        pad_left   |-> pad_left,   pad_right  |-> pad_width - pad_left,
        pad_top    |-> pad_top,    pad_bottom |-> pad_height - pad_top]

\* calculate_padding once scale_factor is known
PaddingAt(width, height, target_ratio, scale_factor) ==
    Padding(NewSize(width, height, target_ratio, scale_factor),
            ScaledDim(width, scale_factor), ScaledDim(height, scale_factor))

\* calculate_padding(width, height, target_ratio, scale); target_ratio and
\* scale are f32
calculate_padding(width, height, target_ratio, scale) ==
    PaddingAt(width, height, target_ratio, F32Div(scale, F32FromNat(100)))

\* AspectRatio::as_f32
as_f32(r) == F32Div(F32FromNat(r[1]), F32FromNat(r[2]))

\* process_image's target ratio: the given one, or the source's own, reduced
TargetRatio(ratio, width, height) ==
    IF ratio = None THEN as_f32(calculate_aspect_ratio(width, height))
    ELSE as_f32(ratio)

(***************************************************************************)
(* calculate_padding on its own, as process_image calls it: the inputs     *)
(* are the source dimensions, the optional AspectRatio and the scale       *)
(* (a whole number of percent).                                            *)
(***************************************************************************)
Dims == 1..MaxDim

Ratios == {None} \cup ((1..MaxRatio) \X (1..MaxRatio))

Scales == {10 * k : k \in 1..MaxScaleTenths}

Idle ==
    /\ options = "idle" /\ input_file = "idle" /\ processed = "idle"
    /\ with_shadow = "idle" /\ background = "idle" /\ output_file = "idle"
    /\ position = "idle" /\ result = "idle"

IdleUnchanged ==
    UNCHANGED <<options, input_file, processed, with_shadow, background,
                output_file, position, result>>

InitPad ==
    /\ Idle
    /\ pc = "call"
    /\ args \in [width : Dims, height : Dims, ratio : Ratios, scale : Scales]
    /\ ret = "none"

CallCalculatePadding ==
    /\ pc = "call"
    /\ ret' = calculate_padding(args.width, args.height,
                                TargetRatio(args.ratio, args.width, args.height),
                                F32FromNat(args.scale))
    /\ pc' = "return"
    /\ UNCHANGED args
    /\ IdleUnchanged

NextPad == CallCalculatePadding

SpecPad == InitPad /\ [][NextPad]_vars

\* floor(dim * scale / 100), in exact arithmetic
ExactScaled(dim, scale) == (dim * scale) \div 100

(* C9: calculate_padding returns a canvas that contains the scaled source  *)
(* on both axes: new_width - floor(width*scale/100) and new_height -       *)
(* floor(height*scale/100) are never negative, the left and right padding  *)
(* add up to the first difference and the top and bottom padding to the    *)
(* second, and the leading half is floor(pad/2), at most one less than the *)
(* trailing half.                                                          *)
C9_CanvasContainsScaledSource ==
    pc = "return" =>
        LET dw == ret.new_width - ExactScaled(args.width, args.scale)
            dh == ret.new_height - ExactScaled(args.height, args.scale)
        IN /\ dw >= 0
           /\ dh >= 0
           /\ ret.pad_left + ret.pad_right = dw
           /\ ret.pad_top + ret.pad_bottom = dh
           /\ ret.pad_left = dw \div 2
           /\ ret.pad_top = dh \div 2
           /\ ret.pad_left <= ret.pad_right /\ ret.pad_right <= ret.pad_left + 1
           /\ ret.pad_top <= ret.pad_bottom /\ ret.pad_bottom <= ret.pad_top + 1

(* C10: with no explicit target ratio, calculate_padding returns           *)
(* new_width = floor(width*scale/100), new_height =                        *)
(* floor(height*scale/100) and four padding values of 0.                   *)
C10_ScaleOnlyKeepsShape ==
    (pc = "return" /\ args.ratio = None) =>
        /\ ret.new_width = ExactScaled(args.width, args.scale)
        /\ ret.new_height = ExactScaled(args.height, args.scale)
        /\ ret.pad_left = 0 /\ ret.pad_right = 0
        /\ ret.pad_top = 0 /\ ret.pad_bottom = 0


(***************************************************************************)
(* Pixel buffers: an RgbaImage is [width, height, px], px a function from  *)
(* <<x, y>> to the pixel <<r, g, b, a>>.                                   *)
(***************************************************************************)
Coords(width, height) == (0..(width - 1)) \X (0..(height - 1))

\* RgbaImage::new: every pixel <<0, 0, 0, 0>>
NewImage(width, height) ==
    [width |-> width, height |-> height,
     px |-> [c \in Coords(width, height) |-> <<0, 0, 0, 0>>]]

\* A buffer not built yet
NoImage == NewImage(0, 0)

\* RgbaImage::from_pixel
FromPixel(width, height, pixel) ==
    [width |-> width, height |-> height,
     px |-> [c \in Coords(width, height) |-> pixel]]

\* The decoded input files of the model: the colour of a pixel tells its
\* place, the alpha is uniform ("opaque", "translucent") or not ("holes").
ImageKinds == {"opaque", "translucent", "holes"}

SourceAlpha(kind, x, y) ==
    CASE kind = "opaque"      -> 255
      [] kind = "translucent" -> 128
      [] kind = "holes"       -> IF (x + 2 * y) % 3 = 0 THEN 0 ELSE 255 - 20 * x

SourceImage(width, height, kind) ==
    [width |-> width, height |-> height,
     px |-> [c \in Coords(width, height) |->
               <<(37 * c[1] + 10) % 256, (91 * c[2] + 20) % 256, 7,
                 SourceAlpha(kind, c[1], c[2])>>]]

SourceImages ==
    {SourceImage(w, h, k) : w \in 1..MaxImage, h \in 1..MaxImage, k \in ImageKinds}

(***************************************************************************)
(* image_processing.rs: the corner rounder                                 *)
(***************************************************************************)
\* A slip: the bottom-left closure is a copy of the top-left one
CornerCoordinates_BottomLeftCopied(corner, x, y, width, height) ==
    CASE corner = "top_left"     -> <<x - 1, y - 1>>
      [] corner = "top_right"    -> <<width - x, y - 1>>
      [] corner = "bottom_right" -> <<width - x, height - y>>
      [] corner = "bottom_left"  -> <<x - 1, y - 1>>

\* The closures round hands to border_radius, by corner
CornerCoordinates(corner, x, y, width, height) ==
    CASE corner = "top_left"     -> <<x - 1, y - 1>>
      [] corner = "top_right"    -> <<width - x, y - 1>>
      [] corner = "bottom_right" -> <<width - x, height - y>>
      [] corner = "bottom_left"  -> <<x - 1, height - y>>

\* img[coordinates(r0 - i, r0 - j)]: the pixel, or the fault that stops the
\* run: a u32 subtraction below zero, or an index outside the buffer.
PixelIndex(img, corner, r0, i, j) ==
    IF i < 0 \/ j < 0 \/ r0 - i < 0 \/ r0 - j < 0
    THEN [fault |-> "underflow"]
    ELSE LET c == CornerCoordinates(corner, r0 - i, r0 - j, img.width, img.height)
         IN IF c[1] < 0 \/ c[2] < 0 THEN [fault |-> "underflow"]
            ELSE IF c[1] >= img.width \/ c[2] >= img.height
                 THEN [fault |-> "out_of_bounds"]
                 ELSE [fault |-> "none", at |-> c]

\* The state of one border_radius call: the locals, the buffer, and the
\* first fault met (debug_assert, overflow checks and bounds checks panic).
\* `.0[3] = 0` on every local pixel of the set cells
ClearAlpha(st, corner, r0, cells) ==
    IF st.fault # "none" THEN st
    ELSE LET idx == [c \in cells |-> PixelIndex(st.img, corner, r0, c[1], c[2])]
             bad == {c \in cells : idx[c].fault # "none"}
         IN IF bad # {}
            THEN [st EXCEPT !.fault = idx[CHOOSE c \in bad : TRUE].fault]
            ELSE LET hit == {idx[c].at : c \in cells}
                 IN [st EXCEPT !.img.px =
                        [q \in DOMAIN st.img.px |->
                           IF q \in hit
                           THEN <<st.img.px[q][1], st.img.px[q][2], st.img.px[q][3], 0>>
                           ELSE st.img.px[q]]]

\* new_alpha = (alpha * old_alpha + 128) / 256, in u16
BlendAlpha(alpha, pixel_alpha) == (alpha * pixel_alpha + 128) \div 256

\* the closure draw
Draw(st, corner, r0, alpha, i, j) ==
    IF st.fault # "none" THEN st
    ELSE IF alpha < 0 \/ alpha >= 2^16 THEN [st EXCEPT !.fault = "overflow"]
    ELSE IF ~(alpha >= 1 /\ alpha <= 256) THEN [st EXCEPT !.fault = "debug_assert"]
    ELSE LET idx == PixelIndex(st.img, corner, r0, i, j)
         IN IF idx.fault # "none" THEN [st EXCEPT !.fault = idx.fault]
            ELSE LET old == st.img.px[idx.at]
                 IN IF alpha * old[4] + 128 >= 2^16
                    THEN [st EXCEPT !.fault = "overflow"]
                    ELSE [st EXCEPT !.img.px[idx.at] =
                             <<old[1], old[2], old[3], BlendAlpha(alpha, old[4]) % 256>>,
                             !.drawn = @ \cup {<<idx.at, alpha>>}]

\* `draw(i, j, alpha); draw(j, i, alpha)`: a pixel and its mirror image
DrawPair(st, corner, r0, alpha, i, j) ==
    Draw(Draw(st, corner, r0, alpha, i, j), corner, r0, alpha, j, i)

\* `x += 1; p -= (2 * (y - x) + 2) as i32; y -= 1`, the subtraction in u32
StepDiagonal(st) ==
    LET x1 == st.x + 1
    IN IF st.y - x1 < 0 THEN [st EXCEPT !.fault = "underflow"]
       ELSE [st EXCEPT !.x = x1, !.p = @ - (2 * (st.y - x1) + 2), !.y = @ - 1]

\* `if y % 16 == 0 { draw; draw; skip_draw = true; alpha = (x + 1) % 16 * 16 }`
DrawOnRowChange(st, corner, r0) ==
    IF st.y % 16 = 0
    THEN [DrawPair(st, corner, r0, st.alpha, st.x \div 16, st.y \div 16)
            EXCEPT !.skip_draw = TRUE, !.alpha = ((st.x + 1) % 16) * 16]
    ELSE st

\* The body of `for _ in 0..16` after `alpha += y % 16 + 1`
InnerBody(st, corner, r0) ==
    IF st.p < 0
    THEN [st EXCEPT !.x = @ + 1, !.p = @ + 2 * (st.x + 1) + 2]
    ELSE StepDiagonal(DrawOnRowChange(st, corner, r0))

\* One pass of `for _ in 0..16`; n passes are left.  brk: `break 'l` was taken.
RECURSIVE InnerLoop(_, _, _, _)
InnerLoop(st, corner, r0, n) ==
    IF n = 0 \/ st.fault # "none" THEN st
    ELSE IF st.x >= st.y THEN [st EXCEPT !.skip_draw = FALSE, !.brk = TRUE]
    ELSE InnerLoop(InnerBody([st EXCEPT !.skip_draw = FALSE,
                                        !.alpha = @ + (st.y % 16) + 1],
                             corner, r0),
                   corner, r0, n - 1)

\* The two `for` loops at the head of `'l: loop` that clear the pixels
\* below and to the right of the arc
ClearRowAndColumn(st, corner, r0) ==
    LET below == {<<st.x \div 16, j>> : j \in (st.y \div 16 + 1)..(r0 - 1)}
        right == {<<i, st.x \div 16>> : i \in (st.y \div 16 + 1)..(r0 - 1)}
    IN ClearAlpha(ClearAlpha(st, corner, r0, below), corner, r0, right)

\* `if !skip_draw { draw; draw; alpha = 0 }`
DrawPending(st, corner, r0) ==
    IF st.fault # "none" \/ st.skip_draw THEN st
    ELSE [DrawPair(st, corner, r0, st.alpha, st.x \div 16 - 1, st.y \div 16)
            EXCEPT !.alpha = 0]

\* One turn of `'l: loop`
OuterPass(st, corner, r0) ==
    InnerLoop(DrawPending(ClearRowAndColumn(st, corner, r0), corner, r0),
              corner, r0, 16)

\* `'l: loop`, until `break 'l` or a panic
RECURSIVE OuterLoop(_, _, _)
OuterLoop(st, corner, r0) ==
    IF st.brk \/ st.fault # "none" THEN st
    ELSE OuterLoop(OuterPass(st, corner, r0), corner, r0)

\* A slip: the pixel on the diagonal drawn with 2 * alpha, the square that
\* both halves count left in
LastPixel_Uncorrected(st, corner, r0) ==
    IF st.fault = "none" /\ st.x \div 16 = st.y \div 16
    THEN LET a1 == IF st.x = st.y THEN st.alpha + (st.y % 16) + 1 ELSE st.alpha
         IN Draw(st, corner, r0, 2 * a1, st.x \div 16, st.y \div 16)
    ELSE st

\* `if x / 16 == y / 16 { ... draw(x / 16, y / 16, 2 * alpha - s * s) }`:
\* one corner pixel left
LastPixel(st, corner, r0) ==
    IF st.fault = "none" /\ st.x \div 16 = st.y \div 16
    THEN LET a1 == IF st.x = st.y THEN st.alpha + (st.y % 16) + 1 ELSE st.alpha
             s  == (st.y % 16) + 1
         IN Draw(st, corner, r0, 2 * a1 - s * s, st.x \div 16, st.y \div 16)
    ELSE st

\* A slip: the closing loops run to r0 inclusive
ClearRest_OneTooFar(st, corner, r0) ==
    LET range == (st.y \div 16 + 1)..r0
    IN ClearAlpha(st, corner, r0, range \X range)

\* The closing double `for` loop that clears the rest of the corner
ClearRest(st, corner, r0) ==
    LET range == (st.y \div 16 + 1)..(r0 - 1)
    IN ClearAlpha(st, corner, r0, range \X range)

\* What a border_radius call leaves: the buffer, the first fault, and drawn,
\* the set of <<pixel, alpha>> the draw closure was called with
Outcome(st) == [img |-> st.img, fault |-> st.fault, drawn |-> st.drawn]

\* border_radius(img, r, coordinates)
border_radius(img, r, corner) ==
    IF r = 0 THEN [img |-> img, fault |-> "none", drawn |-> {}]
    ELSE Outcome(ClearRest(LastPixel(
            OuterLoop([x |-> 0, y |-> 16 * r - 1, p |-> 2 - 16 * r, alpha |-> 0,
                       skip_draw |-> TRUE, brk |-> FALSE, img |-> img,
                       fault |-> "none", drawn |-> {}],
                      corner, r),
            corner, r), corner, r))

\* The four corners in round's order, with the field of CornerRadii each uses
Corners == <<"top_left", "top_right", "bottom_right", "bottom_left">>

\* The four border_radius calls of round from the k-th on; b is what the
\* call before left
RECURSIVE RoundFrom(_, _, _)
RoundFrom(b, radius, k) ==
    IF b.fault # "none" THEN [status |-> "panic", fault |-> b.fault]
    ELSE IF k > 4 THEN [status |-> "Ok", image |-> b.img]
    ELSE RoundFrom(border_radius(b.img, radius[k], Corners[k]), radius, k + 1)

\* round(img, radius)
round(img, radius) ==
    IF ~ /\ radius[1] + radius[2] <= img.width
         /\ radius[4] + radius[3] <= img.width
         /\ radius[1] + radius[4] <= img.height
         /\ radius[2] + radius[3] <= img.height
    THEN [status |-> "panic", fault |-> "assert"]
    ELSE RoundFrom([img |-> img, fault |-> "none"], radius, 1)

\* A slip: the radius rounded up instead of truncated
RadiusPx_RoundedUp(width, height, radius_percentage) ==
    LET q == F32Div(F32Mul(F32FromNat(Min(width, height)), radius_percentage),
                    F32FromNat(100))
    IN IF F32Gt(q, F32FromNat(F32ToNat(q))) THEN F32ToNat(q) + 1 ELSE F32ToNat(q)

\* `((width.min(height) as f32 * radius_percentage) / 100.0) as u32`
RadiusPx(width, height, radius_percentage) ==
    F32ToNat(F32Div(F32Mul(F32FromNat(Min(width, height)), radius_percentage),
                    F32FromNat(100)))

\* round_corners(image, radius_percentage), radius_percentage an f32
round_corners(image, radius_percentage) ==
    LET radius == RadiusPx(image.width, image.height, radius_percentage)
    IN IF radius = 0 THEN [status |-> "Ok", image |-> image]
       ELSE round(image, <<radius, radius, radius, radius>>)

(***************************************************************************)
(* round_corners on its own                                                *)
(***************************************************************************)
Percents == {0, 10, 25, 40, 50, 75, 100}

InitRound ==
    /\ Idle
    /\ pc = "call"
    /\ args \in [image : SourceImages, radius_percentage : Percents]
    /\ ret = "none"

CallRoundCorners ==
    /\ pc = "call"
    /\ ret' = round_corners(args.image, F32FromNat(args.radius_percentage))
    /\ pc' = "return"
    /\ UNCHANGED args
    /\ IdleUnchanged

NextRound == CallRoundCorners

SpecRound == InitRound /\ [][NextRound]_vars

\* floor(min(width, height) * percent / 100), in exact arithmetic
ExactRadius(image, percent) == (Min(image.width, image.height) * percent) \div 100

UniformAlpha(image) ==
    \A c, d \in DOMAIN image.px : image.px[c][4] = image.px[d][4]

\* The pixel <<x, y>> (the unit square from <<x, y>> to <<x+1, y+1>>) has no
\* point in the closed ellipse inscribed in the width x height rectangle.
\* Lengths are in half pixels from the centre.
OutsideInscribed(x, y, width, height) ==
    LET dx == Max(0, Abs(2 * x + 1 - width) - 1)
        dy == Max(0, Abs(2 * y + 1 - height) - 1)
    IN dx * dx * height * height + dy * dy * width * width
         > width * width * height * height

(* C3: for every image and every radius r >= min(width,height)/2           *)
(* (roundness from 50% to 100%), rounding completes and no pixel outside   *)
(* the ellipse inscribed in the rectangle keeps non-zero alpha.            *)
C3_LargeRadiusClearsToInscribedEllipse ==
    (pc = "return"
       /\ 2 * ExactRadius(args.image, args.radius_percentage)
            >= Min(args.image.width, args.image.height)) =>
        /\ ret.status = "Ok"
        /\ \A c \in DOMAIN ret.image.px :
              OutsideInscribed(c[1], c[2], args.image.width, args.image.height)
                 => ret.image.px[c][4] = 0

(* C4: round_corners returns its input, same dimensions and every byte     *)
(* equal, whenever floor(min(width,height) * radius_percent / 100) is 0.   *)
C4_ZeroRadiusIsIdentity ==
    (pc = "return" /\ ExactRadius(args.image, args.radius_percentage) = 0) =>
        /\ ret.status = "Ok"
        /\ ret.image = args.image

C4_Witness ==
    /\ pc = "return"
    /\ args.radius_percentage > 0
    /\ Min(args.image.width, args.image.height) >= 4
    /\ ExactRadius(args.image, args.radius_percentage) = 0
    /\ ret.status = "Ok"
    /\ ret.image = args.image

(* C5: for equal radii and an input of uniform alpha, the alpha values of  *)
(* the four r x r corner boxes after round are mirror images: top-right is *)
(* top-left reflected horizontally, bottom-left reflected vertically,      *)
(* bottom-right reflected in both axes, pixel for pixel.                   *)
C5_CornersAreMirrorImages ==
    (pc = "return" /\ ret.status = "Ok" /\ UniformAlpha(args.image)) =>
        LET r == ExactRadius(args.image, args.radius_percentage)
            w == args.image.width
            h == args.image.height
            a(x, y) == ret.image.px[<<x, y>>][4]
        IN \A x, y \in 0..(r - 1) :
              /\ a(w - 1 - x, y) = a(x, y)
              /\ a(x, h - 1 - y) = a(x, y)
              /\ a(w - 1 - x, h - 1 - y) = a(x, y)

C5_Witness ==
    /\ pc = "return"
    /\ ret.status = "Ok"
    /\ UniformAlpha(args.image)
    /\ ExactRadius(args.image, args.radius_percentage) >= 3
    /\ args.image.width # args.image.height
    /\ ret.image.px[<<0, 0>>][4] < ret.image.px[<<1, 0>>][4]
    /\ ret.image.px[<<1, 0>>][4] < args.image.px[<<1, 0>>][4]
    /\ ret.image.px[<<args.image.width - 1, args.image.height - 1>>][4]
         = ret.image.px[<<0, 0>>][4]

(***************************************************************************)
(* border_radius on its own, as round calls it: one corner, a radius r     *)
(* with 1 <= r and 2r <= min(width, height)                                *)
(***************************************************************************)
\* The inputs have no transparent pixel, so that every write shows
CornerImages(r) ==
    {SourceImage(w, h, k) : w \in {2 * r, 2 * r + 1}, h \in {2 * r, 2 * r + 1},
                            k \in {"opaque", "translucent"}}

InitCorner ==
    /\ Idle
    /\ pc = "call"
    /\ args \in UNION {[image : CornerImages(r), r : {r},
                        corner : {Corners[k] : k \in 1..4}] :
                         r \in 1..MaxCornerRadius}
    /\ ret = "none"

CallBorderRadius ==
    /\ pc = "call"
    /\ ret' = border_radius(args.image, args.r, args.corner)
    /\ pc' = "return"
    /\ UNCHANGED args
    /\ IdleUnchanged

NextCorner == CallBorderRadius

SpecCorner == InitCorner /\ [][NextCorner]_vars

\* The pixel c lies in the r x r box of its corner of a width x height image
InCornerBox(c, corner, r, width, height) ==
    /\ IF corner \in {"top_left", "bottom_left"}
       THEN c[1] >= 0 /\ c[1] < r
       ELSE c[1] >= width - r /\ c[1] < width
    /\ IF corner \in {"top_left", "top_right"}
       THEN c[2] >= 0 /\ c[2] < r
       ELSE c[2] >= height - r /\ c[2] < height

(* C12: for every corner radius r >= 1, every alpha value border_radius    *)
(* passes to its draw step lies in [1,256] (the debug_assert never fails), *)
(* the diagonal pixel's corrected value 2*alpha - s*s included, which      *)
(* never underflows the u16 accumulator; so (a*old_alpha + 128)/256 never  *)
(* exceeds old_alpha and never overflows 16 bits.                          *)
C12_DrawAlphaInRange ==
    pc = "return" =>
        /\ ret.fault \notin {"debug_assert", "overflow"}
        /\ \A d \in ret.drawn :
              /\ d[2] >= 1 /\ d[2] <= 256
              /\ d[2] * args.image.px[d[1]][4] + 128 < 2^16
              /\ BlendAlpha(d[2], args.image.px[d[1]][4]) <= args.image.px[d[1]][4]
        /\ \A c \in DOMAIN ret.img.px : ret.img.px[c][4] <= args.image.px[c][4]

\* The corrected value of the pixel on the diagonal, and a light alpha on
\* the first row that lowers a translucent pixel
C12_Witness ==
    /\ pc = "return"
    /\ ret.fault = "none"
    /\ args.corner = "top_left"
    /\ args.r >= 4
    /\ \E d \in ret.drawn : d[1][1] = d[1][2] /\ d[2] > 128 /\ d[2] < 256
    /\ \E d \in ret.drawn :
          /\ d[2] < 64
          /\ ret.img.px[d[1]][4] > 0
          /\ ret.img.px[d[1]][4] < args.image.px[d[1]][4]

(* C15: for every width x height image and every radius r with 1 <= r and *)
(* 2r <= min(width, height), border_radius terminates and every pixel it   *)
(* reads or writes lies inside the r x r box of its own corner: no         *)
(* coordinate computation underflows and no index is out of the image;     *)
(* pixels outside the corner boxes and all RGB channels are unchanged.     *)
C15_CornerStaysInItsBox ==
    pc = "return" =>
        /\ ret.fault = "none"
        /\ ret.img.width = args.image.width
        /\ ret.img.height = args.image.height
        /\ DOMAIN ret.img.px = DOMAIN args.image.px
        /\ \A d \in ret.drawn :
              InCornerBox(d[1], args.corner, args.r,
                          args.image.width, args.image.height)
        /\ \A c \in DOMAIN args.image.px :
              /\ ret.img.px[c][1] = args.image.px[c][1]
              /\ ret.img.px[c][2] = args.image.px[c][2]
              /\ ret.img.px[c][3] = args.image.px[c][3]
              /\ ret.img.px[c][4] # args.image.px[c][4] =>
                    InCornerBox(c, args.corner, args.r,
                                args.image.width, args.image.height)

\* The bottom-right corner of an image whose four boxes touch: its last
\* pixel is cleared, the pixels next to the box keep their alpha
C15_Witness ==
    /\ pc = "return"
    /\ ret.fault = "none"
    /\ args.corner = "bottom_right"
    /\ args.r >= 3
    /\ args.image.width = 2 * args.r
    /\ args.image.height = 2 * args.r + 1
    /\ ret.img.px[<<args.image.width - 1, args.image.height - 1>>][4] = 0
    /\ args.image.px[<<args.image.width - 1, args.image.height - 1>>][4] > 0
    /\ ret.img.px[<<args.r - 1, args.image.height - 1>>]
         = args.image.px[<<args.r - 1, args.image.height - 1>>]
    /\ ret.img.px[<<args.image.width - 1, args.r>>]
         = args.image.px[<<args.image.width - 1, args.r>>]

(***************************************************************************)
(* background.rs: colours, gradients, backgrounds.  A string is the        *)
(* sequence of its characters.                                             *)
(***************************************************************************)
Ok(v) == [status |-> "Ok", value |-> v]

Err(kind) == [status |-> "Err", error |-> kind]

UpperCase == <<"A", "B", "C", "D", "E", "F", "G", "H", "I", "J", "K", "L", "M",
               "N", "O", "P", "Q", "R", "S", "T", "U", "V", "W", "X", "Y", "Z">>

LowerCase == <<"a", "b", "c", "d", "e", "f", "g", "h", "i", "j", "k", "l", "m",
               "n", "o", "p", "q", "r", "s", "t", "u", "v", "w", "x", "y", "z">>

\* str::to_lowercase, on ASCII
to_lowercase(str) ==
    [i \in 1..Len(str) |->
        IF \E k \in 1..26 : UpperCase[k] = str[i]
        THEN LowerCase[CHOOSE k \in 1..26 : UpperCase[k] = str[i]]
        ELSE str[i]]

HexDigits == <<"0", "1", "2", "3", "4", "5", "6", "7", "8", "9",
               "a", "b", "c", "d", "e", "f">>

IsHexDigit(ch) == \E k \in 1..16 : HexDigits[k] = to_lowercase(<<ch>>)[1]

HexValue(ch) == (CHOOSE k \in 1..16 : HexDigits[k] = to_lowercase(<<ch>>)[1]) - 1

RECURSIVE HexNumber(_)
HexNumber(digits) ==
    IF digits = <<>> THEN 0
    ELSE 16 * HexNumber(SubSeq(digits, 1, Len(digits) - 1))
           + HexValue(digits[Len(digits)])

\* The value of a digit string as a u8, or the overflow error
CheckedU8(v) == IF v > 255 THEN [status |-> "Err", error |-> "ParseIntError"]
                ELSE [status |-> "Ok", value |-> v]

\* from_str_radix after the sign
ParseDigits(digits) ==
    IF digits = <<>> \/ \E i \in 1..Len(digits) : ~IsHexDigit(digits[i])
    THEN Err("ParseIntError")
    ELSE CheckedU8(HexNumber(digits))

\* u8::from_str_radix(str, 16): an optional "+", then one or more digits
from_str_radix(str) ==
    ParseDigits(IF Len(str) > 1 /\ str[1] = "+" THEN Tail(str) ELSE str)

\* str::trim_start_matches('#')
RECURSIVE trim_start_matches(_)
trim_start_matches(str) ==
    IF str # <<>> /\ str[1] = "#" THEN trim_start_matches(Tail(str)) ELSE str

Rgba(r, g, b, a) == <<r, g, b, a>>

\* The named colours, in the order of the match
NamedColors ==
    << <<<<"b", "l", "a", "c", "k">>, Rgba(0, 0, 0, 255)>>,
       <<<<"w", "h", "i", "t", "e">>, Rgba(255, 255, 255, 255)>>,
       <<<<"r", "e", "d">>, Rgba(255, 0, 0, 255)>>,
       <<<<"g", "r", "e", "e", "n">>, Rgba(0, 255, 0, 255)>>,
       <<<<"b", "l", "u", "e">>, Rgba(0, 0, 255, 255)>>,
       <<<<"y", "e", "l", "l", "o", "w">>, Rgba(255, 255, 0, 255)>>,
       <<<<"c", "y", "a", "n">>, Rgba(0, 255, 255, 255)>>,
       <<<<"m", "a", "g", "e", "n", "t", "a">>, Rgba(255, 0, 255, 255)>>,
       <<<<"t", "r", "a", "n", "s", "p", "a", "r", "e", "n", "t">>, Rgba(0, 0, 0, 0)>> >>

\* The channels of a hex colour: each a from_str_radix result, times `mul`
ScaleChannel(n, mul) == IF n.status = "Err" THEN n ELSE Ok(n.value * mul)

HexChannel(hex, from, to, mul) ==
    ScaleChannel(from_str_radix(SubSeq(hex, from, to)), mul)

\* The colour of the channels cs, alpha 255 when there are three; a channel
\* that failed to parse is `?`
HexColor(cs) ==
    IF \E i \in 1..Len(cs) : cs[i].status = "Err"
    THEN Err("ParseIntError")
    ELSE Ok([i \in 1..4 |-> IF i <= Len(cs) THEN cs[i].value ELSE 255])

\* n channels of `width` digits each, from the start of hex
HexChannels(hex, n, width, mul) ==
    HexColor([i \in 1..n |-> HexChannel(hex, width * (i - 1) + 1, width * i, mul)])

\* The `match hex.len()` of parse_color
parse_hex(hex) ==
    CASE Len(hex) = 6 -> HexChannels(hex, 3, 2, 1)
      [] Len(hex) = 8 -> HexChannels(hex, 4, 2, 1)
      [] Len(hex) = 3 -> HexChannels(hex, 3, 1, 17)
      [] OTHER        -> Err("Invalid hex color format")

\* The `match color.to_lowercase().as_str()` of parse_color
parse_named(name) ==
    IF \E k \in 1..Len(NamedColors) : NamedColors[k][1] = name
    THEN Ok(NamedColors[CHOOSE k \in 1..Len(NamedColors) :
                           NamedColors[k][1] = name][2])
    ELSE Err("Unknown color name")

\* parse_color(color)
parse_color(color) ==
    IF color # <<>> /\ color[1] = "#"
    THEN parse_hex(trim_start_matches(color))
    ELSE parse_named(to_lowercase(color))

\* str::split('-')
RECURSIVE split(_)
split(str) ==
    IF \A i \in 1..Len(str) : str[i] # "-" THEN <<str>>
    ELSE LET k == CHOOSE i \in 1..Len(str) :
                     str[i] = "-" /\ \A j \in 1..(i - 1) : str[j] # "-"
         IN <<SubSeq(str, 1, k - 1)>> \o split(SubSeq(str, k + 1, Len(str)))

\* `.collect()` into a Result: the first stop that fails is the error
Collect(colors) ==
    IF \E i \in 1..Len(colors) : colors[i].status = "Err"
    THEN colors[CHOOSE i \in 1..Len(colors) :
                   colors[i].status = "Err"
                   /\ \A j \in 1..(i - 1) : colors[j].status = "Ok"]
    ELSE Ok([i \in 1..Len(colors) |-> colors[i].value])

\* `.map(parse_color)` over the stops
ParseStops(parts) == [i \in 1..Len(parts) |-> parse_color(parts[i])]

\* parse_gradient(gradient)
parse_gradient(gradient) == Collect(ParseStops(split(gradient)))

\* `x as u8` for a non-negative integer part: saturating
AsU8(n) == Min(n, 255)

\* the closure lerp: (a as f32 * (1.0 - t) + b as f32 * t).round() as u8
lerp(a, b, t) ==
    AsU8(F32Round(F32Add(F32Mul(F32FromNat(a), F32Sub(F32One, t)),
                         F32Mul(F32FromNat(b), t))))

\* interpolate_color(color1, color2, t), 0 <= t <= 1
interpolate_color(color1, color2, t) ==
    Rgba(lerp(color1[1], color2[1], t), lerp(color1[2], color2[2], t),
         lerp(color1[3], color2[3], t), lerp(color1[4], color2[4], t))

\* The colour create_gradient_background gives row y
GradientRow(colors, y, height) ==
    LET stops          == F32FromNat(Len(colors) - 1)
        progress       == F32Div(F32FromNat(y), F32FromNat(height))
        index          == F32ToNat(F32Mul(progress, stops))
        next_index     == Min(index + 1, Len(colors) - 1)
        local_progress == F32Sub(F32Mul(progress, stops), F32FromNat(index))
    IN interpolate_color(colors[index + 1], colors[next_index + 1], local_progress)

\* create_gradient_background after `parse_gradient(gradient)?`
GradientImage(width, height, colors) ==
    IF colors.status = "Err" THEN colors
    ELSE IF Len(colors.value) < 2 THEN Err("Gradient needs at least two colors")
    ELSE Ok([width |-> width, height |-> height,
             px |-> [c \in Coords(width, height) |->
                       GradientRow(colors.value, c[2], height)]])

\* create_gradient_background(width, height, gradient)
create_gradient_background(width, height, gradient) ==
    GradientImage(width, height, parse_gradient(gradient))

\* create_color_background after `parse_color(color)?`
ColorImage(width, height, rgba) ==
    IF rgba.status = "Err" THEN rgba
    ELSE Ok(FromPixel(width, height, rgba.value))

\* create_color_background(width, height, color)
create_color_background(width, height, color) ==
    ColorImage(width, height, parse_color(color))

(***************************************************************************)
(* shadow.rs: the shadow generator.  Offsets and the radius are whole      *)
(* numbers (every f32 operation on them is then exact); the opacity is the *)
(* f32 nearest to num/den.                                                 *)
(***************************************************************************)
F32_255 == F32FromNat(255)

\* blend(bg, fg, alpha): (bg as f32 * (1.0 - alpha) + fg as f32 * alpha) as u8
blend(bg, fg, alpha) ==
    AsU8(F32ToNat(F32Add(F32Mul(F32FromNat(bg), F32Sub(F32One, alpha)),
                         F32Mul(F32FromNat(fg), alpha))))

\* The pixels of a buffer, held as computed values
Stored(px) == px @@ <<>>

\* The pixel box_blur gives <<x, y>>: the kernel's nine samples, the
\* coordinate of each got by saturating_add then saturating_sub
BoxBlurPixel(image, x, y) ==
    LET kernel_radius == 3 \div 2
        sample(v, k)  == SaturatingSub(v + k, kernel_radius)
        taken == {k \in (0..2) \X (0..2) :
                     /\ sample(y, k[2]) < image.height
                     /\ sample(x, k[1]) < image.width}
        at(k) == image.px[<<sample(x, k[1]), sample(y, k[2])>>]
        RECURSIVE Sum(_, _)
        Sum(ks, ch) == IF ks = {} THEN 0
                       ELSE LET k == CHOOSE q \in ks : TRUE
                            IN at(k)[ch] + Sum(ks \ {k}, ch)
        count == Cardinality(taken)
    IN IF count > 0
       THEN <<Sum(taken, 1) \div count, Sum(taken, 2) \div count,
              Sum(taken, 3) \div count, Sum(taken, 4) \div count>>
       ELSE <<0, 0, 0, 0>>

\* box_blur(image)
box_blur(image) ==
    [width |-> image.width, height |-> image.height,
     px |-> Stored([c \in Coords(image.width, image.height) |->
                      BoxBlurPixel(image, c[1], c[2])])]

\* `(radius / 2.0).ceil() as usize`
BlurIterations(radius) == (radius + 1) \div 2

RECURSIVE BlurTimes(_, _)
BlurTimes(image, n) == IF n = 0 THEN image ELSE BlurTimes(box_blur(image), n - 1)

\* gaussian_blur(image, radius)
gaussian_blur(image, radius) == BlurTimes(image, BlurIterations(radius))

\* The alpha mask: the source's alpha at (radius, radius), white
AlphaMask(image, radius) ==
    LET shadow_width  == image.width + 2 * radius
        shadow_height == image.height + 2 * radius
    IN [width |-> shadow_width, height |-> shadow_height,
        px |-> Stored([c \in Coords(shadow_width, shadow_height) |->
                  IF <<c[1] - radius, c[2] - radius>> \in DOMAIN image.px
                  THEN LET alpha == F32Div(F32FromNat(
                                       image.px[<<c[1] - radius, c[2] - radius>>][4]),
                                       F32_255)
                       IN <<255, 255, 255, AsU8(F32ToNat(F32Mul(alpha, F32_255)))>>
                  ELSE <<0, 0, 0, 0>>])]

\* The blurred mask in the shadow colour, its alpha times the opacity
ShadowImage(blurred_mask, shadow_color, opacity) ==
    [blurred_mask EXCEPT !.px =
        Stored([c \in DOMAIN blurred_mask.px |->
           <<shadow_color[1], shadow_color[2], shadow_color[3],
             AsU8(F32ToNat(F32Mul(F32FromNat(blurred_mask.px[c][4]), opacity)))>>])]

\* A slip: the canvas grows only for an offset to the right or down
FinalSize_PositiveOnly(shadow_size, offset) == shadow_size + Max(offset, 0)

\* `shadow_width + options.offset.x.abs() as u32`
FinalSize(shadow_size, offset) == shadow_size + Abs(offset)

\* A slip: the shadow starts at the offset's magnitude whatever its sign
ShadowPos_Magnitude(offset) == Abs(offset)

\* shadow_pos_x, shadow_pos_y
ShadowPos(offset) == IF offset < 0 THEN -offset ELSE 0

\* image_pos_x, image_pos_y: where add_drop_shadow draws the source in the
\* layer it returns
ImagePos(offset, radius) == ShadowPos(offset) + radius

\* The shadow pixel drawn at <<x, y>> of the final image: the pixel
\* <<sx, sy>> is put at pos + <<sx, sy>> + max(offset, 0)
ShadowSource(x, y, offset) ==
    <<x - ShadowPos(offset.x) - Max(offset.x, 0),
      y - ShadowPos(offset.y) - Max(offset.y, 0)>>

\* The source pixel drawn at <<x, y>> of the final image: the pixel
\* <<sx, sy>> is put at pos + radius + <<sx, sy>>
ImageSource(x, y, offset, radius) ==
    <<x - ShadowPos(offset.x) - radius, y - ShadowPos(offset.y) - radius>>

\* "Draw the shadow": a transparent final image with the shadow layer on it
DrawShadow(shadow_image, final_width, final_height, offset) ==
    [width |-> final_width, height |-> final_height,
     px |-> Stored([c \in Coords(final_width, final_height) |->
               IF ShadowSource(c[1], c[2], offset) \in DOMAIN shadow_image.px
               THEN shadow_image.px[ShadowSource(c[1], c[2], offset)]
               ELSE <<0, 0, 0, 0>>])]

\* The four blend calls on one pixel, alpha = pixel[3] as f32 / 255.0
BlendOver(existing, pixel, alpha) ==
    <<blend(existing[1], pixel[1], alpha), blend(existing[2], pixel[2], alpha),
      blend(existing[3], pixel[3], alpha), blend(existing[4], pixel[4], alpha)>>

\* "Draw the original image on top of the shadow": every source pixel of
\* non-zero alpha
DrawImage(final, image, offset, radius) ==
    [final EXCEPT !.px =
        [c \in DOMAIN final.px |->
           LET from == ImageSource(c[1], c[2], offset, radius)
           IN IF from \in DOMAIN image.px /\ image.px[from][4] > 0
              THEN BlendOver(final.px[c], image.px[from],
                             F32Div(F32FromNat(image.px[from][4]), F32_255))
              ELSE final.px[c]]]

\* A slip: a colour that does not parse falls back to black
ShadowOn_DefaultsToBlack(image, shadow_options, shadow_color, alpha_mask) ==
    Ok(DrawImage(
         DrawShadow(
           ShadowImage(gaussian_blur(alpha_mask, shadow_options.radius),
                       IF shadow_color.status = "Err" THEN <<0, 0, 0, 255>>
                       ELSE shadow_color.value,
                       F32Div(F32FromNat(shadow_options.opacity[1]),
                              F32FromNat(shadow_options.opacity[2]))),
           FinalSize(alpha_mask.width, shadow_options.offset.x),
           FinalSize(alpha_mask.height, shadow_options.offset.y),
           shadow_options.offset),
         image, shadow_options.offset, shadow_options.radius))

\* add_drop_shadow once the colour is parsed and the alpha mask made
ShadowOn(image, shadow_options, shadow_color, alpha_mask) ==
    IF shadow_color.status = "Err" THEN Err("ShadowError")
    ELSE Ok(DrawImage(
              DrawShadow(
                ShadowImage(gaussian_blur(alpha_mask, shadow_options.radius),
                            shadow_color.value,
                            F32Div(F32FromNat(shadow_options.opacity[1]),
                                   F32FromNat(shadow_options.opacity[2]))),
                FinalSize(alpha_mask.width, shadow_options.offset.x),
                FinalSize(alpha_mask.height, shadow_options.offset.y),
                shadow_options.offset),
              image, shadow_options.offset, shadow_options.radius))

\* add_drop_shadow(image, options)
add_drop_shadow(image, shadow_options) ==
    ShadowOn(image, shadow_options, parse_color(shadow_options.color),
             AlphaMask(image, shadow_options.radius))

(***************************************************************************)
(* The strings of the model                                                *)
(***************************************************************************)
StrBlack == <<"b", "l", "a", "c", "k">>

StrRedUpper == <<"R", "e", "d">>

StrNotAColor == <<"n", "o", "t", "-", "a", "-", "c", "o", "l", "o", "r">>

StrHexHalfGrey == <<"#", "8", "0", "8", "0", "8", "0", "8", "0">>

StrHexShort == <<"#", "f", "0", "8">>

StrHexBad == <<"#", "1", "2", "3", "4">>

StrRedBlue == <<"r", "e", "d", "-", "b", "l", "u", "e">>

StrWhiteBlack == <<"w", "h", "i", "t", "e", "-", "b", "l", "a", "c", "k">>

StrTransparentCyan == <<"t", "r", "a", "n", "s", "p", "a", "r", "e", "n", "t", "-",
                        "c", "y", "a", "n">>

StrHexPair == <<"#", "1", "0", "2", "0", "3", "0", "-",
                "#", "F", "F", "8", "0", "0", "0", "8", "0">>

StrRedGreenBlue == <<"r", "e", "d", "-", "g", "r", "e", "e", "n", "-",
                     "b", "l", "u", "e">>

StrRed == <<"r", "e", "d">>

(***************************************************************************)
(* create_gradient_background on its own                                   *)
(***************************************************************************)
GradientSpecs == {StrRedBlue, StrWhiteBlack, StrTransparentCyan, StrHexPair,
                  StrRedGreenBlue, StrRed, StrNotAColor}

InitGradient ==
    /\ Idle
    /\ pc = "call"
    /\ args \in [width : 1..MaxGradientWidth, height : 1..MaxGradientHeight,
                 gradient : GradientSpecs]
    /\ ret = "none"

CallCreateGradientBackground ==
    /\ pc = "call"
    /\ ret' = create_gradient_background(args.width, args.height, args.gradient)
    /\ pc' = "return"
    /\ UNCHANGED args
    /\ IdleUnchanged

NextGradient == CallCreateGradientBackground

SpecGradient == InitGradient /\ [][NextGradient]_vars

(* C7: for a gradient with exactly 2 stops [c0, c1] over height H (H >= 2),*)
(* row 0 is exactly c0, row H-1 is c1 within rounding (each channel at     *)
(* most 1 away), every channel changes monotonically from row 0 to row     *)
(* H-1, and every row is uniform across x.                                 *)
C7_TwoStopGradientRunsFromFirstToLast ==
    (/\ pc = "return"
     /\ args.height >= 2
     /\ parse_gradient(args.gradient).status = "Ok"
     /\ Len(parse_gradient(args.gradient).value) = 2) =>
        LET c0  == parse_gradient(args.gradient).value[1]
            c1  == parse_gradient(args.gradient).value[2]
            H   == args.height
            row(y) == ret.value.px[<<0, y>>]
        IN /\ ret.status = "Ok"
           /\ row(0) = c0
           /\ \A ch \in 1..4 : Abs(row(H - 1)[ch] - c1[ch]) <= 1
           /\ \A ch \in 1..4 : \A y \in 0..(H - 2) :
                 IF c0[ch] <= c1[ch] THEN row(y)[ch] <= row(y + 1)[ch]
                 ELSE row(y)[ch] >= row(y + 1)[ch]
           /\ \A c \in DOMAIN ret.value.px : ret.value.px[c] = row(c[2])

(***************************************************************************)
(* add_drop_shadow on its own                                              *)
(***************************************************************************)
ShadowSources ==
    {SourceImage(w, h, k) : w \in 1..MaxShadowSource, h \in 1..MaxShadowSource,
                            k \in {"opaque", "holes"}}

Offsets == (-MaxOffset)..MaxOffset

AllShadowOptions ==
    [offset  : [x : Offsets, y : Offsets],
     color   : {StrBlack, StrNotAColor},
     radius  : 0..MaxBlurRadius,
     opacity : {<<1, 1>>, <<1, 2>>}]

InitShadow ==
    /\ Idle
    /\ pc = "call"
    /\ args \in [image : ShadowSources, options : AllShadowOptions]
    /\ ret = "none"

CallAddDropShadow ==
    /\ pc = "call"
    /\ ret' = add_drop_shadow(args.image, args.options)
    /\ pc' = "return"
    /\ UNCHANGED args
    /\ IdleUnchanged

NextShadow == CallAddDropShadow

SpecShadow == InitShadow /\ [][NextShadow]_vars

(* C6: the buffer add_drop_shadow returns has width = source_w + 2*radius  *)
(* + |offset.x| and height = source_h + 2*radius + |offset.y|, for every   *)
(* source size, blur radius and offset of either sign.                     *)
C6_ShadowCanvasDimensions ==
    (pc = "return" /\ ret.status = "Ok") =>
        /\ ret.value.width = args.image.width + 2 * args.options.radius
                               + Abs(args.options.offset.x)
        /\ ret.value.height = args.image.height + 2 * args.options.radius
                                + Abs(args.options.offset.y)
        /\ DOMAIN ret.value.px = Coords(ret.value.width, ret.value.height)

C6_Witness ==
    /\ pc = "return"
    /\ ret.status = "Ok"
    /\ args.options.offset.x < 0
    /\ args.options.offset.y > 0
    /\ args.options.radius = MaxBlurRadius
    /\ ret.value.width = args.image.width + 2 * MaxBlurRadius - args.options.offset.x
    /\ ret.value.height = args.image.height + 2 * MaxBlurRadius + args.options.offset.y

\* shadow_image: the blurred alpha mask in the shadow colour, before it is
\* placed in the final image
ShadowLayer(image, shadow_options) ==
    ShadowImage(gaussian_blur(AlphaMask(image, shadow_options.radius),
                              shadow_options.radius),
                parse_color(shadow_options.color).value,
                F32Div(F32FromNat(shadow_options.opacity[1]),
                       F32FromNat(shadow_options.opacity[2])))

\* The source draws over the pixel <<x, y>> of the final image
SourceDrawnAt(image, shadow_options, x, y) ==
    /\ ImageSource(x, y, shadow_options.offset, shadow_options.radius)
         \in DOMAIN image.px
    /\ image.px[ImageSource(x, y, shadow_options.offset,
                            shadow_options.radius)][4] > 0

(* C13: in add_drop_shadow, for every offset, the blurred shadow layer is  *)
(* placed in the final canvas with its top-left corner at                  *)
(* (max(0, -offset.x), max(0, -offset.y)).                                 *)
C13_ShadowLayerAtNegativeOffsetCorner ==
    (pc = "return" /\ ret.status = "Ok") =>
        LET layer == ShadowLayer(args.image, args.options)
            left  == Max(0, -args.options.offset.x)
            top   == Max(0, -args.options.offset.y)
        IN \A c \in DOMAIN ret.value.px :
              ~SourceDrawnAt(args.image, args.options, c[1], c[2]) =>
                 ret.value.px[c] =
                    IF <<c[1] - left, c[2] - top>> \in DOMAIN layer.px
                    THEN layer.px[<<c[1] - left, c[2] - top>>]
                    ELSE <<0, 0, 0, 0>>

\* final_x, final_y of the draw loops: where the shadow pixel <<x, y>> and
\* the source pixel <<x, y>> are put
ShadowTarget(x, y, offset) ==
    <<ShadowPos(offset.x) + x + Max(offset.x, 0),
      ShadowPos(offset.y) + y + Max(offset.y, 0)>>

ImageTarget(x, y, offset, radius) ==
    <<ImagePos(offset.x, radius) + x, ImagePos(offset.y, radius) + y>>

(* C14: in add_drop_shadow, for every offset of either sign and every      *)
(* radius, no pixel of the shadow layer and no pixel of the source is      *)
(* clipped: each one is written at a position inside the final canvas.     *)
C14_NothingClipped ==
    (pc = "return" /\ ret.status = "Ok") =>
        LET layer == ShadowLayer(args.image, args.options)
        IN /\ \A s \in DOMAIN layer.px :
                 \E c \in {ShadowTarget(s[1], s[2], args.options.offset)} :
                    /\ c[1] < ret.value.width /\ c[2] < ret.value.height
                    /\ ShadowSource(c[1], c[2], args.options.offset) = s
                    /\ ~SourceDrawnAt(args.image, args.options, c[1], c[2]) =>
                          ret.value.px[c] = layer.px[s]
           /\ \A s \in DOMAIN args.image.px :
                 \E c \in {ImageTarget(s[1], s[2], args.options.offset,
                                       args.options.radius)} :
                    /\ c[1] < ret.value.width /\ c[2] < ret.value.height
                    /\ ImageSource(c[1], c[2], args.options.offset,
                                   args.options.radius) = s
                    /\ args.image.px[s][4] = 255 => ret.value.px[c] = args.image.px[s]

\* An offset to the left and down: the last pixel of the shadow layer is the
\* last pixel of the canvas, the source's last pixel is inside
C14_Witness ==
    /\ pc = "return"
    /\ ret.status = "Ok"
    /\ args.options.offset = [x |-> -MaxOffset, y |-> MaxOffset]
    /\ args.options.radius = 1
    /\ args.image.width = MaxShadowSource
    /\ args.image.px[<<args.image.width - 1, args.image.height - 1>>][4] = 255
    /\ ret.value.px[<<ret.value.width - 1, ret.value.height - 1>>][4] > 0
    /\ ret.value.px[<<MaxOffset + args.image.width, args.image.height>>]
         = args.image.px[<<args.image.width - 1, args.image.height - 1>>]

(***************************************************************************)
(* gaussian_blur on its own                                                *)
(***************************************************************************)
BlurImages ==
    {SourceImage(w, h, k) : w \in 1..MaxBlurImage, h \in 1..MaxBlurImage,
                            k \in ImageKinds}

InitBlur ==
    /\ Idle
    /\ pc = "call"
    /\ args \in [image : BlurImages, radius : 0..MaxPassRadius]
    /\ ret = "none"

CallGaussianBlur ==
    /\ pc = "call"
    /\ ret' = gaussian_blur(args.image, args.radius)
    /\ pc' = "return"
    /\ UNCHANGED args
    /\ IdleUnchanged

NextBlur == CallGaussianBlur

SpecBlur == InitBlur /\ [][NextBlur]_vars

\* The pixels of the image in the 3 x 3 neighbourhood of <<x, y>>, each once
Neighbourhood(image, x, y) ==
    {c \in DOMAIN image.px : Abs(c[1] - x) <= 1 /\ Abs(c[2] - y) <= 1}

RECURSIVE ChannelSum(_, _, _)
ChannelSum(image, cells, ch) ==
    IF cells = {} THEN 0
    ELSE LET c == CHOOSE q \in cells : TRUE
         IN image.px[c][ch] + ChannelSum(image, cells \ {c}, ch)

\* The floor of the mean of a channel over the neighbourhood
FloorMean(image, cells, ch) == ChannelSum(image, cells, ch) \div Cardinality(cells)

\* One pass of the 3 x 3 mean over the whole buffer
MeanPass(image) ==
    [width |-> image.width, height |-> image.height,
     px |-> Stored([c \in DOMAIN image.px |->
               <<FloorMean(image, Neighbourhood(image, c[1], c[2]), 1),
                 FloorMean(image, Neighbourhood(image, c[1], c[2]), 2),
                 FloorMean(image, Neighbourhood(image, c[1], c[2]), 3),
                 FloorMean(image, Neighbourhood(image, c[1], c[2]), 4)>>])]

RECURSIVE MeanPasses(_, _)
MeanPasses(image, n) == IF n = 0 THEN image ELSE MeanPasses(MeanPass(image), n - 1)

\* ceil(radius / 2) of a whole radius
CeilHalf(radius) == IF radius % 2 = 0 THEN radius \div 2 ELSE radius \div 2 + 1

(* C16: each box_blur pass keeps the buffer's dimensions and sets every    *)
(* output pixel, per channel, to the floor of the mean of the pixels of    *)
(* its 3 x 3 neighbourhood that lie inside the image, each counted exactly *)
(* once, at all four edges alike; gaussian_blur applies exactly            *)
(* ceil(radius / 2) such passes.                                           *)
C16_BlurIsMeanOfNeighbourhood ==
    pc = "return" =>
        /\ ret.width = args.image.width
        /\ ret.height = args.image.height
        /\ ret = MeanPasses(args.image, CeilHalf(args.radius))

(***************************************************************************)
(* image_processing.rs: process_image, a stage at a time                   *)
(***************************************************************************)
\* create_image_background(width, height, path): the file at path, resized
\* and cropped to exactly width x height.  The resampled content is not
\* modelled pixel by pixel: one colour of the file fills the buffer.
create_image_background(width, height, file) ==
    IF file = None THEN Err("ImageError")
    ELSE Ok(FromPixel(width, height, file))

\* create_background(new_width, new_height, background); `file` is what
\* image::open finds at the path of an Image background
create_background(new_width, new_height, bg, file) ==
    CASE bg[1] = "Color"    -> create_color_background(new_width, new_height, bg[2])
      [] bg[1] = "Gradient" -> create_gradient_background(new_width, new_height, bg[2])
      [] bg[1] = "Image"    -> create_image_background(new_width, new_height, file)

\* `v as i64` of a value given as twice itself: truncation toward zero
TruncHalf(twice) == IF twice >= 0 THEN twice \div 2 ELSE -((-twice) \div 2)

\* A slip: the position rounded down instead of truncated toward zero
PlaceAt_Floored(new_dim, dim, offset) == ((new_dim - dim) + 2 * offset) \div 2

\* `((new_dim as f32 - dim as f32) / 2.0 + offset) as i64`
PlaceAt(new_dim, dim, offset) == TruncHalf((new_dim - dim) + 2 * offset)

\* A channel as a fraction of 255
Normalized(v) == F32Div(F32FromNat(v), F32_255)

NormalizedPixel(p) ==
    <<Normalized(p[1]), Normalized(p[2]), Normalized(p[3]), Normalized(p[4])>>

\* `bg_a + fg_a - bg_a * fg_a`
AlphaFinal(bg_a, fg_a) == F32Sub(F32Add(bg_a, fg_a), F32Mul(bg_a, fg_a))

\* `(fg_c * fg_a + bg_c * bg_a * (1.0 - fg_a)) / alpha_final`
BlendChannel(bg_c, fg_c, bg_a, fg_a, alpha_final) ==
    F32Div(F32Add(F32Mul(fg_c, fg_a),
                  F32Mul(F32Mul(bg_c, bg_a), F32Sub(F32One, fg_a))),
           alpha_final)

\* `NumCast::from(max_t * v)`
CastChannel(v) == F32ToNat(F32Mul(F32_255, v))

\* Rgba::blend on the normalised channels nbg and nfg
BlendNormalized(bg, nbg, nfg, alpha_final) ==
    IF alpha_final = F32Zero THEN bg
    ELSE <<CastChannel(BlendChannel(nbg[1], nfg[1], nbg[4], nfg[4], alpha_final)),
           CastChannel(BlendChannel(nbg[2], nfg[2], nbg[4], nfg[4], alpha_final)),
           CastChannel(BlendChannel(nbg[3], nfg[3], nbg[4], nfg[4], alpha_final)),
           CastChannel(alpha_final)>>

\* Rgba::blend of the image crate: straight source-over, in f32
PixelBlend(bg, fg) ==
    IF fg[4] = 0 THEN bg
    ELSE IF fg[4] = 255 THEN fg
    ELSE BlendNormalized(bg, NormalizedPixel(bg), NormalizedPixel(fg),
                         AlphaFinal(Normalized(bg[4]), Normalized(fg[4])))

\* imageops::overlay(bottom, top, x, y): top clipped to bottom
overlay(bottom, top, x, y) ==
    [bottom EXCEPT !.px =
        [c \in DOMAIN bottom.px |->
           IF <<c[1] - x, c[2] - y>> \in DOMAIN top.px
           THEN PixelBlend(bottom.px[c], top.px[<<c[1] - x, c[2] - y>>])
           ELSE bottom.px[c]]]

\* The small sources, and a 1 x 7 one, whose own ratio 1/7 the f32 division
\* does not invert exactly
PipelineSources ==
    {SourceImage(w, h, k) : w \in 1..MaxSourceWidth, h \in 1..MaxSourceHeight,
                            k \in {"opaque", "holes"}}
      \cup {SourceImage(1, 7, "opaque")}

PipelineShadows ==
    {None,
     Some([offset |-> [x |-> 1, y |-> -1], color |-> StrBlack, radius |-> 1,
           opacity |-> <<1, 2>>]),
     Some([offset |-> [x |-> 0, y |-> 0], color |-> StrNotAColor, radius |-> 1,
           opacity |-> <<1, 1>>])}

PipelineBackgrounds ==
    {<<"Color", StrHexHalfGrey>>, <<"Color", StrNotAColor>>,
     <<"Gradient", StrRedBlue>>, <<"Image", "bg.png">>, <<"Image", "nowhere.png">>}

AllProcessingOptions ==
    [scale      : {100, 150},
     roundness  : {0, 50, 100},
     offset     : {[x |-> 0, y |-> 0], [x |-> 1, y |-> -1]},
     shadow     : PipelineShadows,
     background : PipelineBackgrounds,
     ratio      : {None, <<1, 1>>, <<2, 1>>}]

\* What image::open finds at the path of an Image background: the colour
\* that stands for the file's content, or no file
BackgroundFile(bg) ==
    IF bg = <<"Image", "bg.png">> THEN Rgba(90, 120, 150, 255) ELSE None

Init ==
    /\ pc = "load"
    /\ options \in AllProcessingOptions
    /\ input_file \in {Some(i) : i \in PipelineSources} \cup {None}
    /\ processed = NoImage
    /\ with_shadow = NoImage
    /\ background = NoImage
    /\ output_file = [state |-> "absent", image |-> NoImage]
    /\ position = None
    /\ result = [status |-> "running"]
    /\ args = "idle"
    /\ ret = "idle"

Return(r) == pc' = "returned" /\ result' = r

\* image::open(input_path)?.to_rgba8()
Load ==
    /\ pc = "load"
    /\ IF input_file = None
       THEN /\ Return(Err("ImageLoadError"))
            /\ UNCHANGED processed
       ELSE /\ processed' = input_file[1]
            /\ pc' = "round"
            /\ UNCHANGED result
    /\ UNCHANGED <<options, input_file, with_shadow, background, output_file,
                   position, args, ret>>

\* `if options.roundness > 0.0 { processed = round_corners(..)? }`
RoundCorners ==
    /\ pc = "round"
    /\ IF options.roundness > 0
       THEN \E r \in {round_corners(processed, F32FromNat(options.roundness))} :
               IF r.status = "panic"
               THEN /\ Return(r)
                    /\ UNCHANGED processed
               ELSE /\ processed' = r.image
                    /\ pc' = "shadow"
                    /\ UNCHANGED result
       ELSE /\ pc' = "shadow"
            /\ UNCHANGED <<processed, result>>
    /\ UNCHANGED <<options, input_file, with_shadow, background, output_file,
                   position, args, ret>>

\* `with_shadow = processed.clone(); if let Some(..) { add_drop_shadow(..)? }`
AddDropShadow ==
    /\ pc = "shadow"
    /\ IF options.shadow # None
       THEN \E r \in {add_drop_shadow(processed, options.shadow[1])} :
               IF r.status = "Err"
               THEN /\ Return(r)
                    /\ with_shadow' = processed
               ELSE /\ with_shadow' = r.value
                    /\ pc' = "background"
                    /\ UNCHANGED result
       ELSE /\ with_shadow' = processed
            /\ pc' = "background"
            /\ UNCHANGED result
    /\ UNCHANGED <<options, input_file, processed, background, output_file,
                   position, args, ret>>

\* The canvas size process_image computes: calculate_padding of the source
\* dimensions, the target ratio and the scale
CanvasSize(width, height, opts) ==
    calculate_padding(width, height, TargetRatio(opts.ratio, width, height),
                      F32FromNat(opts.scale))

\* `create_background(width, height, &options.background)?`
CreateBackground ==
    /\ pc = "background"
    /\ \E r \in {create_background(input_file[1].width, input_file[1].height,
                                     options.background,
                                     BackgroundFile(options.background))} :
          IF r.status = "Err"
          THEN /\ Return(r)
               /\ UNCHANGED background
          ELSE /\ background' = r.value
               /\ pc' = "overlay"
               /\ UNCHANGED result
    /\ UNCHANGED <<options, input_file, processed, with_shadow, output_file,
                   position, args, ret>>

\* The position, then imageops::overlay of the shadow layer or the source
Overlay ==
    /\ pc = "overlay"
    /\ \E size \in {CanvasSize(input_file[1].width, input_file[1].height, options)} :
          LET x == PlaceAt(size.new_width, input_file[1].width, options.offset.x)
              y == PlaceAt(size.new_height, input_file[1].height, options.offset.y)
          IN /\ position' = <<x, y>>
             /\ background' = overlay(background,
                                      IF options.shadow # None THEN with_shadow
                                      ELSE processed,
                                      x, y)
    /\ pc' = "save"
    /\ UNCHANGED <<options, input_file, processed, with_shadow, output_file,
                   result, args, ret>>

\* `background.save(output_path)`: the encoder or the disk may fail
Save ==
    /\ pc = "save"
    /\ \/ /\ output_file' = [state |-> "written", image |-> background]
          /\ Return(Ok("output_path"))
       \/ /\ output_file' \in {output_file, [state |-> "partial", image |-> NoImage]}
          /\ Return(Err("ImageSaveError"))
    /\ UNCHANGED <<options, input_file, processed, with_shadow, background,
                   position, args, ret>>

Next ==
    \/ Load
    \/ RoundCorners
    \/ AddDropShadow
    \/ CreateBackground
    \/ Overlay
    \/ Save

Spec == Init /\ [][Next]_vars

\* The stage each position of process_image is about to run, in order
StageOf(at) ==
    CASE at = "load"       -> 1
      [] at = "round"      -> 2
      [] at = "shadow"     -> 3
      [] at = "background" -> 4
      [] at = "overlay"    -> 5
      [] at = "save"       -> 6

\* The first stage before the save that does not succeed on the run's
\* inputs, and how it ends: an error the stage returns, or a panic.
\* stage 0: every one of them succeeds.
FirstFailure ==
    IF input_file = None THEN [stage |-> 1, status |-> "Err"]
    ELSE IF options.roundness > 0
            /\ round_corners(input_file[1], F32FromNat(options.roundness)).status # "Ok"
    THEN [stage |-> 2, status |-> "panic"]
    ELSE IF options.shadow # None
            /\ parse_color(options.shadow[1].color).status = "Err"
    THEN [stage |-> 3, status |-> "Err"]
    ELSE IF create_background(1, 1, options.background,
                              BackgroundFile(options.background)).status = "Err"
    THEN [stage |-> 4, status |-> "Err"]
    ELSE [stage |-> 0, status |-> "Ok"]

(* C1: the save happens only after load, corner rounding, shadow           *)
(* generation and background generation have all succeeded.  On a run in   *)
(* which a stage fails, no later stage runs, so the compositing and the    *)
(* save are never reached and no output file is written, and process_image *)
(* ends as that stage ended: an error returned to the caller.              *)
C1_SaveOnlyAfterEveryStageSucceeds ==
    /\ FirstFailure.stage # 0 =>
          /\ pc # "returned" => StageOf(pc) <= FirstFailure.stage
          /\ pc = "returned" => result.status = FirstFailure.status
          /\ output_file.state = "absent"
    /\ output_file.state # "absent" => FirstFailure.stage = 0

C1_Witness ==
    /\ pc = "returned"
    /\ result = Err("ShadowError")
    /\ input_file # None
    /\ options.shadow # None
    /\ options.shadow[1].color = StrNotAColor
    /\ output_file.state = "absent"

(* C2: the output buffer of process_image has exactly the dimensions       *)
(* (new_width, new_height) that calculate_padding returns for the source   *)
(* dimensions, the target ratio and the scale.                             *)
C2_OutputHasCanvasSize ==
    output_file.state = "written" =>
        LET size == CanvasSize(input_file[1].width, input_file[1].height, options)
        IN /\ output_file.image.width = size.new_width
           /\ output_file.image.height = size.new_height

\* The target ratio is the source's own: none given, or one equal to it
MatchingRatio ==
    \/ options.ratio = None
    \/ options.ratio[1] * input_file[1].height
         = options.ratio[2] * input_file[1].width

\* Zero offset, no shadow, roundness 0, scale 100%, matching ratio
PlainOptions ==
    /\ options.offset = [x |-> 0, y |-> 0]
    /\ options.shadow = None
    /\ options.roundness = 0
    /\ options.scale = 100
    /\ MatchingRatio

Opaque(image) == \A c \in DOMAIN image.px : image.px[c][4] = 255

(* C8: with zero offset, no shadow, roundness 0, scale 100% and a target   *)
(* ratio equal to the source's (or none), the output of process_image has  *)
(* the source's exact dimensions and the source is composited at (0,0);    *)
(* for a fully opaque source every output pixel equals the input pixel.    *)
C8_PlainRunReproducesSource ==
    /\ (position # None /\ PlainOptions) => position = <<0, 0>>
    /\ (output_file.state = "written" /\ PlainOptions) =>
          /\ output_file.image.width = input_file[1].width
          /\ output_file.image.height = input_file[1].height
          /\ Opaque(input_file[1]) => output_file.image.px = input_file[1].px

C8_Witness ==
    /\ pc = "returned"
    /\ result.status = "Ok"
    /\ output_file.state = "written"
    /\ PlainOptions
    /\ options.ratio # None
    /\ Opaque(input_file[1])
    /\ input_file[1].height > 1

\* Where the source's own pixels start in the buffer process_image overlays:
\* the source itself, or the shadow layer with the source inside it
SourceInLayer ==
    IF options.shadow = None THEN <<0, 0>>
    ELSE <<ImagePos(options.shadow[1].offset.x, options.shadow[1].radius),
           ImagePos(options.shadow[1].offset.y, options.shadow[1].radius)>>

\* The margins of the source in the canvas along one axis: <<before, after>>
Margins(canvas_dim, source_dim, at) == <<at, canvas_dim - (at + source_dim)>>

(* C11: process_image places the source on the output canvas at            *)
(* x = (canvas_width - source_width)/2 + offset.x and                      *)
(* y = (canvas_height - source_height)/2 + offset.y, truncated, where      *)
(* canvas_width and canvas_height are the dimensions of the buffer it is   *)
(* overlaid onto; hence with zero offset the source's left and right       *)
(* margins, and its top and bottom margins, in the output differ by at     *)
(* most one pixel, with and without a shadow.                              *)
C11_SourceCenteredOnCanvas ==
    position # None =>
        /\ position[1] = PlaceAt(background.width, input_file[1].width,
                                 options.offset.x)
        /\ position[2] = PlaceAt(background.height, input_file[1].height,
                                 options.offset.y)
        /\ options.offset = [x |-> 0, y |-> 0] =>
              LET mx == Margins(background.width, input_file[1].width,
                                position[1] + SourceInLayer[1])
                  my == Margins(background.height, input_file[1].height,
                                position[2] + SourceInLayer[2])
              IN /\ Abs(mx[1] - mx[2]) <= 1
                 /\ Abs(my[1] - my[2]) <= 1

====
